---- MODULE Spec2Model ----
(***************************************************************************)
(* VLESS-over-WebSocket relay (src/main.ts, second program of the file,    *)
(* lines 630-1354): header parser, inbound WebSocket stream, TCP outbound  *)
(* with retry, DNS-over-HTTPS outbound, and the per-connection relay.      *)
(*                                                                         *)
(* Bytes are naturals 0..255, byte buffers are sequences of bytes.         *)
(* JavaScript strings are sequences of one-character strings.              *)
(* The JavaScript value `undefined` read from a typed array is Undef.      *)
(***************************************************************************)
EXTENDS Integers, Sequences, FiniteSets, TLC

\* ------------------------------------------------------------------------
\* Bounds of the model (not program constants)
\* ------------------------------------------------------------------------
NumConns == 2
MaxMsgs == 2
MaxUpstream == 2
MaxDoh == 2
MaxAddons == 2
MaxCut == 3
MaxStarts == 2

\* ------------------------------------------------------------------------
\* Program constants
\* ------------------------------------------------------------------------
WS_READY_STATE_OPEN == 1
WS_READY_STATE_CLOSING == 2
WS_READY_STATE_CLOSED == 3
MinHeaderLength == 24
DnsPort == 53

Undef == -1
NoSocket == 0

Min(a, b) == IF a < b THEN a ELSE b

\* ArrayBuffer.prototype.slice(a, b) / TypedArray slice: clamped, 0-based,
\* end exclusive.
Slice(buf, a, b) ==
  LET lo == Min(a, Len(buf))
      hi == Min(b, Len(buf))
  IN IF lo >= hi THEN <<>> ELSE SubSeq(buf, lo + 1, hi)

\* new Uint8Array(buf.slice(i, i + 1))[0]
U8At(buf, i) == IF i >= 0 /\ i < Len(buf) THEN buf[i + 1] ELSE Undef

HexDigits == <<"0","1","2","3","4","5","6","7","8","9","a","b","c","d","e","f">>
HexChars == {"0","1","2","3","4","5","6","7","8","9","a","b","c","d","e","f",
             "A","B","C","D","E","F"}

\* (i + 256).toString(16).slice(1): two lowercase hex digits of a byte
byteToHex(b) == <<HexDigits[(b \div 16) + 1], HexDigits[(b % 16) + 1]>>

RECURSIVE DecStr(_)
\* Number.prototype.toString() of a non-negative integer
DecStr(n) == IF n < 10 THEN <<HexDigits[n + 1]>>
             ELSE DecStr(n \div 10) \o <<HexDigits[(n % 10) + 1]>>

RECURSIVE JoinWith(_, _)
\* Array.prototype.join(sep) over an array of strings
JoinWith(parts, sep) ==
  IF Len(parts) = 0 THEN <<>>
  ELSE IF Len(parts) = 1 THEN parts[1]
  ELSE parts[1] \o <<sep>> \o JoinWith(Tail(parts), sep)

\* isValidUUID: /^[0-9a-f]{8}-[0-9a-f]{4}-[4][0-9a-f]{3}-[89ab][0-9a-f]{3}-[0-9a-f]{12}$/i
isValidUUID(s) ==
  /\ Len(s) = 36
  /\ \A i \in 1..36 :
       IF i \in {9, 14, 19, 24} THEN s[i] = "-" ELSE s[i] \in HexChars
  /\ s[15] = "4"
  /\ s[20] \in {"8", "9", "a", "b", "A", "B"}

\* The configured user id (default of the UUID environment variable).
userID ==
  <<"e","5","1","8","5","3","0","5","-","1","9","8","4","-","4","0","8","4","-",
    "8","1","e","0","-","f","7","7","2","7","1","1","5","9","c","6","2">>

\* stringifyUUID: the text built from 16 bytes; thrown is TRUE when the
\* function throws TypeError('Invalid UUID') (also when a byte is missing:
\* byteToHex[undefined] yields the text "undefined").
stringifyUUID(arr) ==
  IF Len(arr) < 16 THEN [thrown |-> TRUE, uuid |-> <<>>]
  ELSE LET h(i) == byteToHex(arr[i + 1])
           uuid == h(0) \o h(1) \o h(2) \o h(3) \o <<"-">> \o
                   h(4) \o h(5) \o <<"-">> \o
                   h(6) \o h(7) \o <<"-">> \o
                   h(8) \o h(9) \o <<"-">> \o
                   h(10) \o h(11) \o h(12) \o h(13) \o h(14) \o h(15)
       IN IF isValidUUID(uuid) THEN [thrown |-> FALSE, uuid |-> uuid]
          ELSE [thrown |-> TRUE, uuid |-> <<>>]

\* TextDecoder().decode on the bytes of a domain name.  The inputs of the
\* model are ASCII letters, digits, '.' and '-'; any other byte is shown
\* as the replacement character "?".
AsciiChar(b) ==
  IF b >= 97 /\ b <= 122
    THEN <<"a","b","c","d","e","f","g","h","i","j","k","l","m","n","o","p",
           "q","r","s","t","u","v","w","x","y","z">>[b - 96]
  ELSE IF b >= 48 /\ b <= 57 THEN HexDigits[b - 47]
  ELSE IF b = 46 THEN "."
  ELSE IF b = 45 THEN "-"
  ELSE "?"

\* the UTF-8 byte order mark, which TextDecoder (ignoreBOM false) drops
\* from the start of its input
Utf8Bom == <<239, 187, 191>>

TextDecode(bytes) ==
  LET text == IF Len(bytes) >= 3 /\ SubSeq(bytes, 1, 3) = Utf8Bom
              THEN SubSeq(bytes, 4, Len(bytes)) ELSE bytes
  IN [i \in 1..Len(text) |-> AsciiChar(text[i])]

\* dataView.getUint16(i * 2).toString(16).padStart(4, '0')
Hex16(hi, lo) == byteToHex(hi) \o byteToHex(lo)

ParseError(msg) ==
  [hasError |-> TRUE, thrown |-> FALSE, message |-> msg,
   addressRemote |-> <<>>, addressType |-> Undef, portRemote |-> Undef,
   rawDataIndex |-> Undef, vlessVersion |-> Undef, isUDP |-> FALSE]

\* An exception that leaves processVlessHeader (TypeError of stringifyUUID,
\* RangeError of DataView.getUint16)
ParseThrow(msg) == [ParseError(msg) EXCEPT !.thrown = TRUE]

\* CheckUser with the comparison left out: every user id is accepted
CheckUser_AcceptAll(uuidBytes) == "ok"

\* stringifyUUID(uuidBytes) !== userID, with the exception stringifyUUID
\* may throw: "throw", "invalid" (the texts differ) or "ok"
CheckUser(uuidBytes) ==
  LET su == stringifyUUID(uuidBytes)
  IN IF su.thrown THEN "throw"
     ELSE IF su.uuid # userID THEN "invalid"
     ELSE "ok"

\* processVlessHeader after its length test
ParseHeader(vlessBuffer) ==
  LET version == U8At(vlessBuffer, 0)
      uuidBytes == Slice(vlessBuffer, 1, 17)
      user == CheckUser(uuidBytes)
  IN
  IF user = "throw" THEN ParseThrow("Invalid UUID")
  ELSE IF user = "invalid" THEN ParseError("Invalid user")
  ELSE
  LET optLength == U8At(vlessBuffer, 17)
      command == IF optLength = Undef THEN Undef
                 ELSE U8At(vlessBuffer, 18 + optLength)
  IN
  IF command \notin {1, 2} THEN ParseError("Unsupported command")
  ELSE
  LET isUDP == (command = 2)
      portIndex == 18 + optLength + 1
      portBuffer == Slice(vlessBuffer, portIndex, portIndex + 2)
  IN
  IF Len(portBuffer) < 2 THEN ParseThrow("RangeError")
  ELSE
  LET portRemote == portBuffer[1] * 256 + portBuffer[2]
      addressIndex == portIndex + 2
      addressType == U8At(vlessBuffer, addressIndex)
      addressValueIndex == addressIndex + 1
      ok(addressValue, idx, addressLength) ==
        IF addressValue = <<>> THEN ParseError("Empty address value")
        ELSE [hasError |-> FALSE, thrown |-> FALSE, message |-> "",
              addressRemote |-> addressValue, addressType |-> addressType,
              portRemote |-> portRemote,
              rawDataIndex |-> idx + addressLength,
              vlessVersion |-> version, isUDP |-> isUDP]
  IN
  CASE addressType = 1 ->
         LET bytes == Slice(vlessBuffer, addressValueIndex, addressValueIndex + 4)
         IN ok(JoinWith([i \in 1..Len(bytes) |-> DecStr(bytes[i])], "."),
               addressValueIndex, 4)
    [] addressType = 2 ->
         LET addressLength == U8At(vlessBuffer, addressValueIndex)
         IN IF addressLength = Undef THEN ParseError("Empty address value")
            ELSE ok(TextDecode(Slice(vlessBuffer, addressValueIndex + 1,
                                     addressValueIndex + 1 + addressLength)),
                    addressValueIndex + 1, addressLength)
    [] addressType = 3 ->
         LET bytes == Slice(vlessBuffer, addressValueIndex, addressValueIndex + 16)
         IN IF Len(bytes) < 16 THEN ParseThrow("RangeError")
            ELSE ok(JoinWith([i \in 1..8 |-> Hex16(bytes[2 * i - 1], bytes[2 * i])], ":"),
                    addressValueIndex, 16)
    [] OTHER -> ParseError("Invalid address type")

\* A text WebSocket frame reaches the program as a JavaScript string.  A
\* chunk that is a string is written as its UTF-16 code units, each raised
\* by TextBase, so that it differs from every chunk of bytes (the empty
\* string is not represented).
TextBase == 256

AsText(codes) == [i \in 1..Len(codes) |-> TextBase + codes[i]]

IsText(chunk) == chunk # <<>> /\ chunk[1] >= TextBase

RECURSIVE DigitsValue(_, _)
\* the decimal value of a string of digits, Undef (NaN) for any other string
\* of the model (no white space, sign, exponent or radix prefix)
DigitsValue(str, acc) ==
  IF str = <<>> THEN acc
  ELSE LET d == Head(str) - TextBase - 48
       IN IF d < 0 \/ d > 9 THEN Undef
          ELSE DigitsValue(Tail(str), 10 * acc + d)

\* new Uint8Array(chunk): the bytes of a buffer; for a string, ToIndex of
\* its numeric value (NaN and the empty string give 0) many zero bytes
Uint8ArrayFrom(chunk) ==
  IF ~IsText(chunk) THEN chunk
  ELSE LET n == DigitsValue(chunk, 0)
       IN [i \in 1..(IF n = Undef THEN 0 ELSE n) |-> 0]

\* processVlessHeader given a string: byteLength is undefined, so the
\* length test passes; slice() is String.prototype.slice and every
\* Uint8Array made from a slice holds only zero bytes, so that the command
\* byte is never 1 or 2
ParseText(str) ==
  LET uuidBytes == Uint8ArrayFrom(Slice(str, 1, 17))
      user == CheckUser(uuidBytes)
  IN IF user = "throw" THEN ParseThrow("Invalid UUID")
     ELSE IF user = "invalid" THEN ParseError("Invalid user")
     ELSE ParseError("Unsupported command")

\* processVlessHeader without the test of byteLength < 24
processVlessHeader_NoLengthTest(vlessBuffer) == ParseHeader(vlessBuffer)

\* processVlessHeader(vlessBuffer, userID)
processVlessHeader(vlessBuffer) ==
  IF IsText(vlessBuffer) THEN ParseText(vlessBuffer)
  ELSE IF Len(vlessBuffer) < MinHeaderLength THEN ParseError("Invalid data length")
  ELSE ParseHeader(vlessBuffer)

\* The two bytes [vlessVersion[0], 0] built by vlessOverWSHandler
ResponseHeader(version) == <<version, 0>>

\* chunk.slice(rawDataIndex)
RawClientData(chunk, rawDataIndex) == Slice(chunk, rawDataIndex, Len(chunk))

\* ------------------------------------------------------------------------
\* Inputs of the model: client messages, upstream chunks, configuration
\* ------------------------------------------------------------------------
UserBytes == <<229, 24, 83, 5, 25, 132, 64, 132, 129, 224, 247, 114, 113, 21, 156, 98>>
OtherV4Bytes == <<229, 24, 83, 5, 25, 132, 64, 132, 129, 224, 247, 114, 113, 21, 156, 99>>
ZeroBytes == [i \in 1..16 |-> 0]

MkHeader(uuid, addons, command, port, addr, payload) ==
  <<0>> \o uuid \o <<Len(addons)>> \o addons \o <<command>> \o
  <<port \div 256, port % 256>> \o addr \o payload

AddrV4 == <<1, 1, 1, 1, 1>>
AddrDomain == <<2, 3, 97, 46, 98>>

PayloadHI == <<72, 73>>
DataMsg == <<0, 1, 75>>
DnsRecord == <<0, 2, 7, 8>>

MsgTcp == MkHeader(UserBytes, <<>>, 1, 443, AddrV4, PayloadHI)
MsgTcpBare == MkHeader(UserBytes, <<>>, 1, 443, AddrV4, <<>>)
MsgDns == MkHeader(UserBytes, <<>>, 2, 53, AddrDomain, DnsRecord)
MsgUdp443 == MkHeader(UserBytes, <<>>, 2, 443, AddrDomain, DnsRecord)
MsgBadUser == MkHeader(OtherV4Bytes, <<>>, 1, 443, AddrV4, PayloadHI)
MsgZeroUser == MkHeader(ZeroBytes, <<>>, 1, 443, AddrV4, PayloadHI)
\* 23 bytes: a TCP/IPv4 header cut after the first address byte
MsgShort23 == SubSeq(MsgTcp, 1, 23)

FirstMsgs == {MsgTcp, MsgDns, MsgUdp443, MsgBadUser, MsgZeroUser, MsgShort23, DataMsg}
LaterMsgs == {DataMsg, MsgTcp, MsgDns}

\* processVlessHeader tabulated over the chunks a client sends
ClientChunks == FirstMsgs \cup LaterMsgs
ParsedChunks == [m \in ClientChunks |-> processVlessHeader(m)]
ParseOf(m) == IF m \in ClientChunks THEN ParsedChunks[m] ELSE processVlessHeader(m)

ProxyHost == <<"p", "x">>
ProxyChoices == {<<>>, ProxyHost}

\* bytes an upstream of connection c may send back, and DoH reply bodies
UpChunk(c) == <<100 + c>>
DohBody(c) == <<110 + c>>

Conn == 1..NumConns

\* What the sec-websocket-protocol header decodes to (base64ToArrayBuffer):
\* nothing, a decode error, or the decoded bytes
EarlyNone == [kind |-> "none", data |-> <<>>]
EarlyError == [kind |-> "error", data |-> <<>>]
EarlyOf(m) == [kind |-> "data", data |-> m]

\* the base64 alphabet of atob, in the order of the 6-bit values
B64Chars ==
  <<"A","B","C","D","E","F","G","H","I","J","K","L","M","N","O","P","Q","R","S",
    "T","U","V","W","X","Y","Z","a","b","c","d","e","f","g","h","i","j","k","l",
    "m","n","o","p","q","r","s","t","u","v","w","x","y","z","0","1","2","3","4",
    "5","6","7","8","9","+","/">>

B64Value(ch) == (CHOOSE i \in 1..64 : B64Chars[i] = ch) - 1

\* String.prototype.replace(/from/g, to) for a one-character pattern
ReplaceAll(str, from, to) ==
  [i \in 1..Len(str) |-> IF str[i] = from THEN to ELSE str[i]]

RECURSIVE AtobBytes(_)
\* the bytes of a base64 text without padding whose length is not 1 mod 4
AtobBytes(str) ==
  IF Len(str) < 2 THEN <<>>
  ELSE LET a == B64Value(str[1])
           b == B64Value(str[2])
       IN IF Len(str) = 2 THEN <<(a * 64 + b) \div 16>>
          ELSE LET c == B64Value(str[3])
               IN IF Len(str) = 3
                  THEN LET n == a * 4096 + b * 64 + c
                       IN <<n \div 1024, (n \div 4) % 256>>
                  ELSE LET n == a * 262144 + b * 4096 + c * 64 + B64Value(str[4])
                       IN <<n \div 65536, (n \div 256) % 256, n % 256>>
                          \o AtobBytes(SubSeq(str, 5, Len(str)))

\* atob followed by Uint8Array.from(decode, c => c.charCodeAt(0)): ASCII
\* whitespace is removed, one or two '=' are dropped from a text whose
\* length is a multiple of 4, and a length of 1 mod 4 or a character outside
\* the alphabet throws
atob(str) ==
  LET data == SelectSeq(str, LAMBDA ch : ch \notin {" ", "\t", "\n", "\f", "\r"})
      n == Len(data)
      cut == IF n % 4 = 0 /\ n > 0 /\ data[n] = "="
             THEN (IF data[n - 1] = "=" THEN 2 ELSE 1) ELSE 0
      body == SubSeq(data, 1, n - cut)
  IN IF Len(body) % 4 = 1
        \/ \E i \in 1..Len(body) : \A j \in 1..64 : B64Chars[j] # body[i]
     THEN [error |-> TRUE, bytes |-> <<>>]
     ELSE [error |-> FALSE, bytes |-> AtobBytes(body)]

\* base64ToArrayBuffer(base64Str)
base64ToArrayBuffer(base64Str) ==
  IF base64Str = <<>> THEN EarlyNone
  ELSE LET r == atob(ReplaceAll(ReplaceAll(base64Str, "-", "+"), "_", "/"))
       IN IF r.error THEN EarlyError ELSE EarlyOf(r.bytes)

\* the URL-safe alphabet a client encodes early data with
B64UrlChars == ReplaceAll(ReplaceAll(B64Chars, "+", "-"), "/", "_")

RECURSIVE Base64Url(_)
\* URL-safe base64 without padding, as the client puts it in the
\* sec-websocket-protocol header
Base64Url(bytes) ==
  IF bytes = <<>> THEN <<>>
  ELSE IF Len(bytes) = 1
    THEN <<B64UrlChars[(bytes[1] \div 4) + 1], B64UrlChars[(bytes[1] % 4) * 16 + 1]>>
  ELSE IF Len(bytes) = 2
    THEN LET n == bytes[1] * 256 + bytes[2]
         IN <<B64UrlChars[(n \div 1024) + 1], B64UrlChars[((n \div 16) % 64) + 1],
              B64UrlChars[(n % 16) * 4 + 1]>>
  ELSE LET n == bytes[1] * 65536 + bytes[2] * 256 + bytes[3]
       IN <<B64UrlChars[(n \div 262144) + 1], B64UrlChars[((n \div 4096) % 64) + 1],
            B64UrlChars[((n \div 64) % 64) + 1], B64UrlChars[(n % 64) + 1]>>
          \o Base64Url(SubSeq(bytes, 4, Len(bytes)))

\* sec-websocket-protocol headers: absent, two texts atob rejects (a
\* character outside the alphabet, a length of 1 mod 4), and the encodings
\* of a request header and of a short chunk
EarlyHeaders == {<<>>, <<"!", "!", "!", "!">>, <<"A">>,
                 Base64Url(MsgTcp), Base64Url(DataMsg)}

EarlyChoices == {base64ToArrayBuffer(hdr) : hdr \in EarlyHeaders}

\* ------------------------------------------------------------------------
\* State
\* ------------------------------------------------------------------------
VARIABLES
  proxyIP,              \* PROXYIP (fixed at start-up)
  wsReady,              \* socket.readyState per connection, 0 before the upgrade
  wsOut,                \* frames the server sent on the WebSocket
  inbound,              \* the ReadableStream of makeReadableWebSocketStream
  sink,                 \* the WritableStream the inbound stream is piped to
  remoteSocketWrapper,  \* remoteSocketWrapper.value (index into socks, or NoSocket)
  isDns,                \* isDns
  udpStreamWrite,       \* udpStreamWrite # null
  tcp,                  \* the handleTCPOutBound invocations of the connection
  socks,                \* the upstream TCP sockets opened for the connection
  dns,                  \* state of handleUDPOutBound
  sent,                 \* history: chunks the client sent (early data first)
  parsed,               \* history: indexes of the chunks given to processVlessHeader
  upFirst,              \* history: index of the first chunk whose bytes were
                        \* written to an upstream socket (0: none yet)
  parseCase,            \* the header handed to processVlessHeader on its own
  parseResult,          \* what processVlessHeader returned for it
  startup               \* the UUID environment variable, config.json and the
                        \* userID selected by each start of the server

vars == <<proxyIP, wsReady, wsOut, inbound, sink, remoteSocketWrapper, isDns,
          udpStreamWrite, tcp, socks, dns, sent, parsed, upFirst,
          parseCase, parseResult, startup>>

\* safeCloseWebSocket: close() is called in readyState OPEN or CLOSING and
\* leaves the socket CLOSING until the close event
safeCloseWebSocket(rs) ==
  IF rs = WS_READY_STATE_OPEN \/ rs = WS_READY_STATE_CLOSING
  THEN WS_READY_STATE_CLOSING ELSE rs

\* webSocket.send(frame): delivered only while the socket is OPEN
WsSend(out, rs, frame) ==
  IF rs = WS_READY_STATE_OPEN THEN Append(out, frame) ELSE out

\* send on one WebSocket shared by all connections
SendOn_Shared(out, c, rs, frame) == [out EXCEPT ![1] = WsSend(@, rs, frame)]

\* webSocket.send on the WebSocket of connection c (the webSocket argument
\* of remoteSocketToWS and handleUDPOutBound)
SendOn(out, c, rs, frame) == [out EXCEPT ![c] = WsSend(@, rs, frame)]

Frame(bytes, withHeader, sock) == [bytes |-> bytes, hdr |-> withHeader, sock |-> sock]

NoInbound == [state |-> "none", queue |-> <<>>, readableStreamCancel |-> FALSE,
              misuse |-> FALSE, earlyError |-> FALSE]
NoSink == [st |-> "none", sock |-> NoSocket, idx |-> 0, data |-> <<>>]
NoDns == [wq |-> <<>>, queue |-> <<>>, inflight |-> FALSE, tosend |-> <<>>,
          sending |-> FALSE, withHeader |-> FALSE,
          isVlessHeaderSent |-> FALSE, header |-> <<>>, err |-> FALSE,
          fetches |-> 0, posted |-> <<>>, sendNotOpen |-> FALSE,
          pending |-> {}, status |-> 0]

\* no header has been handed to the parser on its own
NoCase == [kind |-> "none"]
NotParsed == [kind |-> "none"]

InitConn ==
  /\ wsReady = [c \in Conn |-> 0]
  /\ wsOut = [c \in Conn |-> <<>>]
  /\ inbound = [c \in Conn |-> NoInbound]
  /\ sink = [c \in Conn |-> NoSink]
  /\ remoteSocketWrapper = [c \in Conn |-> NoSocket]
  /\ isDns = [c \in Conn |-> FALSE]
  /\ udpStreamWrite = [c \in Conn |-> FALSE]
  /\ tcp = [c \in Conn |-> <<>>]
  /\ socks = [c \in Conn |-> <<>>]
  /\ dns = [c \in Conn |-> NoDns]
  /\ sent = [c \in Conn |-> <<>>]
  /\ parsed = [c \in Conn |-> <<>>]
  /\ upFirst = [c \in Conn |-> 0]

\* config.json: absent, unreadable (readTextFile or JSON.parse throws), or
\* a JSON object whose uuid member is the given text (empty: no such member)
NoConfigFile == [kind |-> "absent", uuid |-> <<>>]
BadConfigFile == [kind |-> "unreadable", uuid |-> <<>>]
ConfigFileOf(uuid) == [kind |-> "json", uuid |-> uuid]

\* the running server: started with the default UUID, no config.json
RunningServer ==
  [env |-> <<>>, config |-> NoConfigFile, selected |-> <<userID>>,
   saveFailed |-> FALSE]

Init ==
  /\ proxyIP \in ProxyChoices
  /\ InitConn
  /\ parseCase = NoCase
  /\ parseResult = NotParsed
  /\ startup = RunningServer

\* ------------------------------------------------------------------------
\* vlessOverWSHandler: the upgrade, makeReadableWebSocketStream.start
\* ------------------------------------------------------------------------
\* a queue that puts the newest chunk first
Enqueue_Front(queue, entry) == <<entry>> \o queue

\* controller.enqueue(chunk) on the inbound stream
Enqueue(queue, entry) == Append(queue, entry)

Upgrade(c, early) ==
  /\ wsReady[c] = 0
  /\ wsReady' = [wsReady EXCEPT ![c] = WS_READY_STATE_OPEN]
  /\ inbound' = [inbound EXCEPT ![c] =
       [state |-> IF early.kind = "error" THEN "errored" ELSE "readable",
        queue |-> IF early.kind = "data"
                  THEN Enqueue(<<>>, [idx |-> 1, data |-> early.data]) ELSE <<>>,
        readableStreamCancel |-> FALSE, misuse |-> FALSE,
        earlyError |-> early.kind = "error"]]
  /\ sink' = [sink EXCEPT ![c] =
       [NoSink EXCEPT !.st = IF early.kind = "error" THEN "aborted" ELSE "idle"]]
  /\ sent' = [sent EXCEPT ![c] = IF early.kind = "data" THEN <<early.data>> ELSE <<>>]
  /\ UNCHANGED <<startup, parseCase, parseResult,
                 proxyIP, wsOut, remoteSocketWrapper, isDns, udpStreamWrite,
                 tcp, socks, dns, parsed, upFirst>>

\* the 'message' listener of makeReadableWebSocketStream
ClientMessage(c, m) ==
  /\ wsReady[c] \in {WS_READY_STATE_OPEN, WS_READY_STATE_CLOSING}
  /\ Len(sent[c]) < MaxMsgs
  /\ sent' = [sent EXCEPT ![c] = Append(@, m)]
  /\ inbound' = [inbound EXCEPT ![c] =
       IF @.readableStreamCancel THEN @
       ELSE IF @.state = "readable"
         THEN [@ EXCEPT !.queue = Enqueue(@, [idx |-> Len(sent[c]) + 1, data |-> m])]
       ELSE [@ EXCEPT !.misuse = TRUE]]
  /\ UNCHANGED <<startup, parseCase, parseResult,
                 proxyIP, wsReady, wsOut, sink, remoteSocketWrapper, isDns,
                 udpStreamWrite, tcp, socks, dns, parsed, upFirst>>

\* the 'close' listener: the client closed, or the closing handshake that
\* the server started has completed
WsCloseEvent(c) ==
  /\ wsReady[c] \in {WS_READY_STATE_OPEN, WS_READY_STATE_CLOSING}
  /\ wsReady' = [wsReady EXCEPT ![c] = WS_READY_STATE_CLOSED]
  /\ inbound' = [inbound EXCEPT ![c] =
       IF @.readableStreamCancel THEN @
       ELSE IF @.state = "readable"
         THEN [@ EXCEPT !.state = IF inbound[c].queue = <<>> THEN "closed"
                                  ELSE "closeRequested"]
       ELSE [@ EXCEPT !.misuse = TRUE]]
  /\ UNCHANGED <<startup, parseCase, parseResult,
                 proxyIP, wsOut, sink, remoteSocketWrapper, isDns,
                 udpStreamWrite, tcp, socks, dns, sent, parsed, upFirst>>

\* the 'error' listener, followed in the same turn by the 'close' listener
WsErrorEvent(c) ==
  /\ wsReady[c] \in {WS_READY_STATE_OPEN, WS_READY_STATE_CLOSING}
  /\ wsReady' = [wsReady EXCEPT ![c] = WS_READY_STATE_CLOSED]
  /\ inbound' = [inbound EXCEPT ![c] =
       LET afterError == IF @.state \in {"readable", "closeRequested"}
                         THEN [@ EXCEPT !.state = "errored", !.queue = <<>>]
                         ELSE @
       IN IF afterError.readableStreamCancel THEN afterError
          ELSE [afterError EXCEPT !.misuse = TRUE]]
  /\ sink' = [sink EXCEPT ![c] =
       IF inbound[c].state \in {"readable", "closeRequested"} /\ @.st = "idle"
       THEN [@ EXCEPT !.st = "aborted"] ELSE @]
  /\ UNCHANGED <<startup, parseCase, parseResult,
                 proxyIP, wsOut, remoteSocketWrapper, isDns,
                 udpStreamWrite, tcp, socks, dns, sent, parsed, upFirst>>

\* ------------------------------------------------------------------------
\* The client-to-upstream WritableStream of vlessOverWSHandler
\* ------------------------------------------------------------------------

\* The inbound stream once pipeTo has taken the head chunk
Dequeued(ib) ==
  [ib EXCEPT !.queue = Tail(@),
             !.state = IF ib.state = "closeRequested" /\ Tail(ib.queue) = <<>>
                       THEN "closed" ELSE @]

\* write() threw: pipeTo cancels the source (cancel() of
\* makeReadableWebSocketStream, unless the stream is already closed or
\* errored) and rejects
Cancelled(ib) ==
  IF ib.state \in {"closed", "errored"} THEN ib
  ELSE [ib EXCEPT !.state = "cancelled", !.queue = <<>>,
                  !.readableStreamCancel = TRUE]

ClosedByCancel(ib, rs) ==
  IF ib.state \in {"closed", "errored"} \/ ib.readableStreamCancel THEN rs
  ELSE safeCloseWebSocket(rs)

NewHandler(r, chunk, idx) ==
  [addressRemote |-> r.addressRemote, portRemote |-> r.portRemote,
   rawClientData |-> RawClientData(chunk, r.rawDataIndex),
   vlessResponseHeader |-> ResponseHeader(r.vlessVersion),
   msg |-> idx, pc |-> "dial", sock |-> NoSocket,
   hasIncomingData |-> FALSE, header |-> <<>>,
   retries |-> 0, retryHadData |-> FALSE, retryTarget |-> <<>>,
   headersSent |-> 0, failure |-> "none"]

\* the port test with every UDP port let through
UdpPermitted_Any(portRemote) == TRUE

\* the port test of the UDP branch: portRemote === 53
UdpPermitted(portRemote) == portRemote = DnsPort

\* write(chunk) of the sink, up to its first suspension point
PipeWrite(c) ==
  /\ sink[c].st = "idle"
  /\ inbound[c].state \in {"readable", "closeRequested"}
  /\ inbound[c].queue # <<>>
  /\ LET e == Head(inbound[c].queue)
         ib == Dequeued(inbound[c])
         fail ==
           /\ sink' = [sink EXCEPT ![c].st = "failed"]
           /\ inbound' = [inbound EXCEPT ![c] = Cancelled(ib)]
           /\ wsReady' = [wsReady EXCEPT ![c] = ClosedByCancel(ib, @)]
     IN
     IF isDns[c] /\ udpStreamWrite[c] THEN
       \* udpStreamWrite(chunk): writer.write on the transform stream
       /\ dns' = [dns EXCEPT ![c].wq = Append(@, e.data)]
       /\ inbound' = [inbound EXCEPT ![c] = ib]
       /\ UNCHANGED <<wsReady, sink, remoteSocketWrapper, isDns, udpStreamWrite,
                      tcp, socks, parsed>>
     ELSE IF remoteSocketWrapper[c] # NoSocket THEN
       LET s == remoteSocketWrapper[c] IN
       IF socks[c][s].locked THEN
         \* getWriter() on a locked stream throws
         /\ fail
         /\ UNCHANGED <<remoteSocketWrapper, isDns, udpStreamWrite, tcp, socks,
                        dns, parsed>>
       ELSE
         /\ socks' = [socks EXCEPT ![c][s].locked = TRUE]
         /\ sink' = [sink EXCEPT ![c] =
              [st |-> "writing", sock |-> s, idx |-> e.idx,
               data |-> Uint8ArrayFrom(e.data)]]
         /\ inbound' = [inbound EXCEPT ![c] = ib]
         /\ UNCHANGED <<wsReady, remoteSocketWrapper, isDns, udpStreamWrite,
                        tcp, dns, parsed>>
     ELSE
       LET r == ParseOf(e.data)
           dnsNow == isDns[c] \/ (~r.hasError /\ r.isUDP /\ UdpPermitted(r.portRemote))
       IN
       /\ parsed' = [parsed EXCEPT ![c] = Append(@, e.idx)]
       /\ IF r.hasError THEN
            /\ fail
            /\ UNCHANGED <<remoteSocketWrapper, isDns, udpStreamWrite, tcp,
                           socks, dns>>
          ELSE IF r.isUDP /\ ~UdpPermitted(r.portRemote) THEN
            /\ fail
            /\ UNCHANGED <<remoteSocketWrapper, isDns, udpStreamWrite, tcp,
                           socks, dns>>
          ELSE IF dnsNow THEN
            \* handleUDPOutBound, then udpStreamWrite(rawClientData)
            /\ isDns' = [isDns EXCEPT ![c] = TRUE]
            /\ udpStreamWrite' = [udpStreamWrite EXCEPT ![c] = TRUE]
            /\ dns' = [dns EXCEPT ![c] =
                 [NoDns EXCEPT !.header = ResponseHeader(r.vlessVersion),
                               !.wq = <<RawClientData(e.data, r.rawDataIndex)>>]]
            /\ inbound' = [inbound EXCEPT ![c] = ib]
            /\ UNCHANGED <<wsReady, sink, remoteSocketWrapper, tcp, socks>>
          ELSE
            \* handleTCPOutBound is started and not awaited
            /\ tcp' = [tcp EXCEPT ![c] = Append(@, NewHandler(r, e.data, e.idx))]
            /\ inbound' = [inbound EXCEPT ![c] = ib]
            /\ UNCHANGED <<wsReady, sink, remoteSocketWrapper, isDns,
                           udpStreamWrite, socks, dns>>
  /\ UNCHANGED <<startup, parseCase, parseResult,
                 proxyIP, wsOut, sent, upFirst>>

\* await writer.write(chunk) on the upstream socket resolved; releaseLock()
PipeWriteDone(c) ==
  /\ sink[c].st = "writing"
  /\ LET s == sink[c].sock IN
     /\ socks' = [socks EXCEPT ![c][s].locked = FALSE,
                               ![c][s].received = @ \o sink[c].data]
     /\ upFirst' = [upFirst EXCEPT ![c] = IF @ = 0 THEN sink[c].idx ELSE @]
  /\ sink' = [sink EXCEPT ![c] =
       [NoSink EXCEPT !.st = IF inbound[c].state = "errored" THEN "aborted"
                             ELSE "idle"]]
  /\ UNCHANGED <<startup, parseCase, parseResult,
                 proxyIP, wsReady, wsOut, inbound, remoteSocketWrapper, isDns,
                 udpStreamWrite, tcp, dns, sent, parsed>>

\* await writer.write(chunk) rejected (the socket is gone): write() throws,
\* releaseLock() is not reached
PipeWriteFail(c) ==
  /\ sink[c].st = "writing"
  /\ socks[c][sink[c].sock].rd # "open"
  /\ sink' = [sink EXCEPT ![c] = [NoSink EXCEPT !.st = "failed"]]
  /\ inbound' = [inbound EXCEPT ![c] = Cancelled(@)]
  /\ wsReady' = [wsReady EXCEPT ![c] = ClosedByCancel(inbound[c], @)]
  /\ UNCHANGED <<startup, parseCase, parseResult,
                 proxyIP, wsOut, remoteSocketWrapper, isDns, udpStreamWrite,
                 tcp, socks, dns, sent, parsed, upFirst>>

\* close() of the sink: the inbound stream was closed and drained
PipeClose(c) ==
  /\ sink[c].st = "idle"
  /\ inbound[c].state = "closed"
  /\ sink' = [sink EXCEPT ![c].st = "closed"]
  /\ UNCHANGED <<startup, parseCase, parseResult,
                 proxyIP, wsReady, wsOut, inbound, remoteSocketWrapper, isDns,
                 udpStreamWrite, tcp, socks, dns, sent, parsed, upFirst>>

\* ------------------------------------------------------------------------
\* handleTCPOutBound / remoteSocketToWS
\* ------------------------------------------------------------------------

\* retry() dialling the parsed address even when PROXYIP is set
RetryTarget_SameHost(proxy, addressRemote) == addressRemote

\* the host retry() dials: proxyIP || addressRemote
RetryTarget(proxy, addressRemote) == IF proxy # <<>> THEN proxy ELSE addressRemote

\* the retry test without !hasIncomingData
ShouldRetry_IgnoreData(hasIncomingData, retryGiven) == retryGiven

\* the test that follows the pipe in remoteSocketToWS: !hasIncomingData && retry
ShouldRetry(hasIncomingData, retryGiven) == ~hasIncomingData /\ retryGiven

\* the header bytes remoteSocketToWS puts before a chunk, and what is left
\* of its vlessResponseHeader afterwards
Prefixed(header, chunk) == header \o chunk

RECURSIVE ChunksSent(_)
\* chunks the upstreams of one connection have sent so far
ChunksSent(ss) == IF ss = <<>> THEN 0 ELSE Head(ss).nsent + ChunksSent(Tail(ss))

\* what the upstream side of one connection has done so far: chunks sent,
\* sockets ended or reset, dials refused (bounded by MaxUpstream)
UpstreamEvents(c) ==
  ChunksSent(socks[c])
  + Cardinality({s \in 1..Len(socks[c]) : socks[c][s].rd = "closed"})
  + Cardinality({h \in 1..Len(tcp[c]) : tcp[c][h].failure = "connect"})

Dialing(h) == h.pc \in {"dial", "retry_dial"}
Writing(h) == h.pc \in {"write", "retry_write"}
Piping(h) == h.pc \in {"pipe", "retry_pipe"}

\* connectAndWrite: Deno.connect resolved; remoteSocket.value is set and the
\* write of rawClientData is issued under the writer lock
ConnectDone(c, h) ==
  /\ h \in 1..Len(tcp[c])
  /\ Dialing(tcp[c][h])
  /\ LET hd == tcp[c][h]
         isRetry == hd.pc = "retry_dial"
         s == Len(socks[c]) + 1
         sock == [hostname |-> IF isRetry
                               THEN RetryTarget(proxyIP, hd.addressRemote)
                               ELSE hd.addressRemote,
                  port |-> hd.portRemote, handler |-> h, retry |-> isRetry,
                  received |-> <<>>, locked |-> TRUE, rd |-> "open",
                  echoed |-> 0, nsent |-> 0, initial |-> <<>>, wrote |-> FALSE]
     IN
     /\ socks' = [socks EXCEPT ![c] = Append(@, sock)]
     /\ remoteSocketWrapper' = [remoteSocketWrapper EXCEPT ![c] = s]
     /\ tcp' = [tcp EXCEPT ![c][h].pc = IF isRetry THEN "retry_write" ELSE "write",
                           ![c][h].sock = s]
  /\ UNCHANGED <<startup, parseCase, parseResult,
                 proxyIP, wsReady, wsOut, inbound, sink, isDns, udpStreamWrite,
                 dns, sent, parsed, upFirst>>

\* connectAndWrite: Deno.connect rejected; nothing awaits or catches the
\* promise of handleTCPOutBound or of retry()
ConnectFail(c, h) ==
  /\ h \in 1..Len(tcp[c])
  /\ Dialing(tcp[c][h])
  /\ UpstreamEvents(c) < MaxUpstream
  /\ tcp' = [tcp EXCEPT ![c][h].pc = "done", ![c][h].failure = "connect"]
  /\ UNCHANGED <<startup, parseCase, parseResult,
                 proxyIP, wsReady, wsOut, inbound, sink, remoteSocketWrapper,
                 isDns, udpStreamWrite, socks, dns, sent, parsed, upFirst>>

\* connectAndWrite: the write of rawClientData resolved, releaseLock();
\* remoteSocketToWS starts with the full response header
InitialWriteDone(c, h) ==
  /\ h \in 1..Len(tcp[c])
  /\ Writing(tcp[c][h])
  /\ LET hd == tcp[c][h]
         s == hd.sock
     IN
     /\ socks' = [socks EXCEPT ![c][s].locked = FALSE,
                               ![c][s].received = @ \o hd.rawClientData,
                               ![c][s].initial = hd.rawClientData,
                               ![c][s].wrote = TRUE]
     /\ upFirst' = [upFirst EXCEPT ![c] = IF @ = 0 THEN hd.msg ELSE @]
     /\ tcp' = [tcp EXCEPT ![c][h].pc = IF hd.pc = "write" THEN "pipe"
                                        ELSE "retry_pipe",
                           ![c][h].hasIncomingData = FALSE,
                           ![c][h].header = hd.vlessResponseHeader]
  /\ UNCHANGED <<startup, parseCase, parseResult,
                 proxyIP, wsReady, wsOut, inbound, sink, remoteSocketWrapper,
                 isDns, udpStreamWrite, dns, sent, parsed>>

\* connectAndWrite: the write of rawClientData rejected; the writer lock is
\* never released and the rejection is not handled
InitialWriteFail(c, h) ==
  /\ h \in 1..Len(tcp[c])
  /\ Writing(tcp[c][h])
  /\ UpstreamEvents(c) < MaxUpstream
  /\ tcp' = [tcp EXCEPT ![c][h].pc = "done", ![c][h].failure = "write"]
  /\ socks' = [socks EXCEPT ![c][tcp[c][h].sock].rd = "closed"]
  /\ UNCHANGED <<startup, parseCase, parseResult,
                 proxyIP, wsReady, wsOut, inbound, sink, remoteSocketWrapper,
                 isDns, udpStreamWrite, dns, sent, parsed, upFirst>>

\* what follows the awaited pipeTo in remoteSocketToWS
AfterPipe(hd, hasIncomingData) ==
  IF ShouldRetry(hasIncomingData, hd.pc = "pipe")
  THEN [hd EXCEPT !.pc = "retry_dial", !.hasIncomingData = hasIncomingData,
                  !.retries = @ + 1, !.retryHadData = hasIncomingData,
                  !.retryTarget = RetryTarget(proxyIP, hd.addressRemote)]
  ELSE [hd EXCEPT !.pc = "done", !.hasIncomingData = hasIncomingData]

\* write(chunk) of the sink in remoteSocketToWS
UpstreamChunk(c, h, chunk, isEcho) ==
  /\ h \in 1..Len(tcp[c])
  /\ Piping(tcp[c][h])
  /\ chunk # <<>>
  /\ LET hd == tcp[c][h]
         s == hd.sock
     IN
     /\ socks[c][s].rd = "open"
     /\ UpstreamEvents(c) < MaxUpstream
     /\ IF wsReady[c] # WS_READY_STATE_OPEN THEN
          \* throw: the pipe fails, the catch handler closes the WebSocket
          /\ wsReady' = [wsReady EXCEPT ![c] = safeCloseWebSocket(@)]
          /\ tcp' = [tcp EXCEPT ![c][h] = AfterPipe(hd, TRUE)]
          /\ socks' = [socks EXCEPT ![c][s].rd = "closed"]
          /\ UNCHANGED wsOut
        ELSE
          /\ wsOut' = SendOn(wsOut, c, wsReady[c],
                              Frame(Prefixed(hd.header, chunk), hd.header # <<>>, s))
          /\ tcp' = [tcp EXCEPT ![c][h].hasIncomingData = TRUE,
                                ![c][h].header = <<>>,
                                ![c][h].headersSent =
                                   IF hd.header # <<>> THEN @ + 1 ELSE @]
          /\ socks' = [socks EXCEPT ![c][s].nsent = @ + 1,
                                    ![c][s].echoed =
                                       IF isEcho THEN Len(socks[c][s].received)
                                       ELSE @]
          /\ UNCHANGED wsReady
  /\ UNCHANGED <<startup, parseCase, parseResult,
                 proxyIP, inbound, sink, remoteSocketWrapper, isDns,
                 udpStreamWrite, dns, sent, parsed, upFirst>>

\* what an echoing upstream sends next: the bytes it received and has not
\* yet sent back
EchoPending(c, h) ==
  IF h \in 1..Len(tcp[c]) /\ Piping(tcp[c][h])
  THEN LET sk == socks[c][tcp[c][h].sock]
       IN SubSeq(sk.received, sk.echoed + 1, Len(sk.received))
  ELSE <<>>

\* the upstream closed cleanly: close() of the sink, pipeTo resolves
UpstreamEOF(c, h) ==
  /\ h \in 1..Len(tcp[c])
  /\ Piping(tcp[c][h])
  /\ socks[c][tcp[c][h].sock].rd = "open"
  /\ UpstreamEvents(c) < MaxUpstream
  /\ socks' = [socks EXCEPT ![c][tcp[c][h].sock].rd = "closed"]
  /\ tcp' = [tcp EXCEPT ![c][h] = AfterPipe(@, @.hasIncomingData)]
  /\ UNCHANGED <<startup, parseCase, parseResult,
                 proxyIP, wsReady, wsOut, inbound, sink, remoteSocketWrapper,
                 isDns, udpStreamWrite, dns, sent, parsed, upFirst>>

\* the upstream read failed: pipeTo rejects, the catch handler calls
\* safeCloseWebSocket, then the retry test runs all the same
UpstreamError(c, h) ==
  /\ h \in 1..Len(tcp[c])
  /\ Piping(tcp[c][h])
  /\ socks[c][tcp[c][h].sock].rd = "open"
  /\ UpstreamEvents(c) < MaxUpstream
  /\ socks' = [socks EXCEPT ![c][tcp[c][h].sock].rd = "closed"]
  /\ wsReady' = [wsReady EXCEPT ![c] = safeCloseWebSocket(@)]
  /\ tcp' = [tcp EXCEPT ![c][h] = AfterPipe(@, @.hasIncomingData)]
  /\ UNCHANGED <<startup, parseCase, parseResult,
                 proxyIP, wsOut, inbound, sink, remoteSocketWrapper,
                 isDns, udpStreamWrite, dns, sent, parsed, upFirst>>

\* ------------------------------------------------------------------------
\* handleUDPOutBound
\* ------------------------------------------------------------------------

RECURSIVE UdpRecords(_, _, _)
\* transform(chunk, controller): the datagrams enqueued from one chunk, and
\* whether the loop threw (getUint16 on a length field of fewer than 2
\* bytes); a string has no byteLength and the loop does not run
UdpRecords(chunk, index, acc) ==
  IF IsText(chunk) \/ index >= Len(chunk) THEN [out |-> acc, threw |-> FALSE]
  ELSE LET lengthBuffer == Slice(chunk, index, index + 2) IN
       IF Len(lengthBuffer) < 2 THEN [out |-> acc, threw |-> TRUE]
       ELSE LET udpPacketLength == lengthBuffer[1] * 256 + lengthBuffer[2]
                udpData == Slice(chunk, index + 2, index + 2 + udpPacketLength)
            IN UdpRecords(chunk, index + 2 + udpPacketLength, Append(acc, udpData))

\* new Uint8Array([(udpSize >> 8) & 0xff, udpSize & 0xff])
UdpSizeBuffer(udpSize) == <<(udpSize \div 256) % 256, udpSize % 256>>

\* what transform() leaves for the DoH sink.  transform() runs while the
\* sink waits for a datagram, so the first enqueue hands its datagram to
\* the sink at once; a throw later in the loop errors the stream and
\* discards what was queued after it
UdpDelivered(r) ==
  IF ~r.threw THEN r.out
  ELSE IF r.out = <<>> THEN <<>> ELSE <<Head(r.out)>>

\* the transform stream takes the next chunk written by udpStreamWrite
UdpTransform(c) ==
  /\ dns[c].wq # <<>>
  /\ ~dns[c].err
  /\ dns[c].queue = <<>>
  /\ ~dns[c].inflight
  /\ LET r == UdpRecords(Head(dns[c].wq), 0, <<>>) IN
     dns' = [dns EXCEPT ![c].wq = Tail(@),
                        ![c].queue = UdpDelivered(r),
                        ![c].err = r.threw]
  /\ UNCHANGED <<startup, parseCase, parseResult,
                 proxyIP, wsReady, wsOut, inbound, sink, remoteSocketWrapper,
                 isDns, udpStreamWrite, tcp, socks, sent, parsed, upFirst>>

\* a sink that is given the next datagram while write() is still running
SinkReady_Always(d) == TRUE

\* the WritableStream calls write() again only when the promise of the
\* previous write() has settled
SinkReady(d) == ~d.inflight

\* write(chunk) of the DoH sink: fetch is issued for the next datagram
\* (pending: the numbers of the requests whose fetch has not settled)
DohFetch(c) ==
  /\ dns[c].queue # <<>>
  /\ SinkReady(dns[c])
  /\ dns[c].fetches < MaxDoh
  /\ dns' = [dns EXCEPT ![c].queue = Tail(@),
                        ![c].inflight = TRUE,
                        ![c].pending = @ \cup {dns[c].fetches + 1},
                        ![c].fetches = @ + 1,
                        ![c].posted = Append(@, Head(dns[c].queue))]
  /\ UNCHANGED <<startup, parseCase, parseResult,
                 proxyIP, wsReady, wsOut, inbound, sink, remoteSocketWrapper,
                 isDns, udpStreamWrite, tcp, socks, sent, parsed, upFirst>>

\* HTTP status of a successful DoH response
HttpOk == 200

\* fetch of request n and resp.arrayBuffer() resolved with an HTTP status
\* and a body (the status is not looked at): the readyState test, then the
\* frame is built through an awaited Blob
DohResponse(c, n, status, body) ==
  /\ n \in dns[c].pending
  /\ ~dns[c].sending
  /\ IF wsReady[c] = WS_READY_STATE_OPEN
     THEN dns' = [dns EXCEPT ![c].sending = TRUE,
                             ![c].pending = @ \ {n},
                             ![c].status = status,
                             ![c].withHeader = ~dns[c].isVlessHeaderSent,
                             ![c].tosend =
                                (IF dns[c].isVlessHeaderSent THEN <<>>
                                 ELSE dns[c].header)
                                \o UdpSizeBuffer(Len(body)) \o body]
     ELSE dns' = [dns EXCEPT ![c].inflight = FALSE, ![c].pending = @ \ {n}]
  /\ UNCHANGED <<startup, parseCase, parseResult,
                 proxyIP, wsReady, wsOut, inbound, sink, remoteSocketWrapper,
                 isDns, udpStreamWrite, tcp, socks, sent, parsed, upFirst>>

\* a DoH request answered with status 200
DohReply(c, body) ==
  \E n \in dns[c].pending : DohResponse(c, n, HttpOk, body)

\* the Blob resolved: webSocket.send(frame), isVlessHeaderSent = true
DohSend(c) ==
  /\ dns[c].sending
  /\ wsOut' = SendOn(wsOut, c, wsReady[c],
                      Frame(dns[c].tosend, dns[c].withHeader, NoSocket))
  /\ dns' = [dns EXCEPT ![c].sending = FALSE, ![c].inflight = FALSE,
                        ![c].tosend = <<>>, ![c].withHeader = FALSE,
                        ![c].status = 0,
                        ![c].isVlessHeaderSent =
                           @ \/ dns[c].withHeader,
                        ![c].sendNotOpen =
                           @ \/ wsReady[c] # WS_READY_STATE_OPEN]
  /\ UNCHANGED <<startup, parseCase, parseResult,
                 proxyIP, wsReady, inbound, sink, remoteSocketWrapper,
                 isDns, udpStreamWrite, tcp, socks, sent, parsed, upFirst>>

\* a failed DoH request that ends the connection
DohFail_Fatal(c) ==
  /\ ~dns[c].sending
  /\ \E n \in dns[c].pending :
       dns' = [dns EXCEPT ![c].inflight = FALSE, ![c].pending = @ \ {n},
                          ![c].err = TRUE]
  /\ wsReady' = [wsReady EXCEPT ![c] = safeCloseWebSocket(@)]
  /\ UNCHANGED <<startup, parseCase, parseResult, proxyIP, wsOut, inbound, sink,
                 remoteSocketWrapper, isDns, udpStreamWrite, tcp, socks, sent,
                 parsed, upFirst>>

\* fetch or resp.arrayBuffer() threw: the catch logs, nothing is sent
DohFail(c) ==
  /\ ~dns[c].sending
  /\ \E n \in dns[c].pending :
       dns' = [dns EXCEPT ![c].inflight = FALSE, ![c].pending = @ \ {n}]
  /\ UNCHANGED <<startup, parseCase, parseResult,
                 proxyIP, wsReady, wsOut, inbound, sink, remoteSocketWrapper,
                 isDns, udpStreamWrite, tcp, socks, sent, parsed, upFirst>>

\* ------------------------------------------------------------------------
\* Specifications
\* ------------------------------------------------------------------------

\* what the client may send next
MsgChoices(c) == IF sent[c] = <<>> THEN FirstMsgs ELSE LaterMsgs

ClientSends(c) == \E m \in MsgChoices(c) : ClientMessage(c, m)

\* every event source of an upgraded connection
RelayStep(c) ==
  \/ ClientSends(c)
  \/ WsCloseEvent(c)
  \/ WsErrorEvent(c)
  \/ PipeWrite(c)
  \/ PipeWriteDone(c)
  \/ PipeWriteFail(c)
  \/ PipeClose(c)
  \/ \E h \in 1..MaxMsgs : ConnectDone(c, h)
  \/ \E h \in 1..MaxMsgs : ConnectFail(c, h)
  \/ \E h \in 1..MaxMsgs : InitialWriteDone(c, h)
  \/ \E h \in 1..MaxMsgs : InitialWriteFail(c, h)
  \/ \E h \in 1..MaxMsgs : UpstreamChunk(c, h, UpChunk(c), FALSE)
  \/ \E h \in 1..MaxMsgs : UpstreamEOF(c, h)
  \/ \E h \in 1..MaxMsgs : UpstreamError(c, h)
  \/ UdpTransform(c)
  \/ DohFetch(c)
  \/ DohReply(c, DohBody(c))
  \/ DohSend(c)
  \/ DohFail(c)

\* one connection, every event source
ConnStep(c) ==
  \/ \E early \in EarlyChoices : Upgrade(c, early)
  \/ RelayStep(c)

Next == ConnStep(1)

Spec == Init /\ [][Next]_vars

\* --- one connection whose client sends a header and then the bytes of
\* EchoPayload in any split, against an upstream that echoes; nothing fails
\* and the client does not close
EchoPayload == <<72, 73, 74>>

RECURSIVE Flatten(_)
Flatten(ss) == IF ss = <<>> THEN <<>> ELSE Head(ss) \o Flatten(Tail(ss))

\* the payload bytes the client has sent after the header so far
ClientPayload(c) ==
  LET all == Flatten(sent[c])
  IN IF Len(all) <= Len(MsgTcpBare) THEN <<>>
     ELSE SubSeq(all, Len(MsgTcpBare) + 1, Len(all))

EchoMsgChoices(c) ==
  LET done == Len(ClientPayload(c))
  IN IF sent[c] = <<>>
     THEN {MsgTcpBare \o SubSeq(EchoPayload, 1, k) : k \in 0..Len(EchoPayload)}
     ELSE {SubSeq(EchoPayload, done + 1, j) : j \in (done + 1)..Len(EchoPayload)}

ClientSendsPayload(c) == \E m \in EchoMsgChoices(c) : ClientMessage(c, m)

UpstreamEcho(c) ==
  \E h \in 1..MaxMsgs : UpstreamChunk(c, h, EchoPending(c, h), TRUE)

\* the close event that completes a close the server started
ServerCloseCompletes(c) == wsReady[c] = WS_READY_STATE_CLOSING /\ WsCloseEvent(c)

EchoStep(c) ==
  \/ \E early \in {EarlyNone, EarlyOf(MsgTcpBare)} : Upgrade(c, early)
  \/ ClientSendsPayload(c)
  \/ ServerCloseCompletes(c)
  \/ PipeWrite(c)
  \/ PipeWriteDone(c)
  \/ \E h \in 1..MaxMsgs : ConnectDone(c, h)
  \/ \E h \in 1..MaxMsgs : InitialWriteDone(c, h)
  \/ UpstreamEcho(c)

NextEcho == EchoStep(1)

SpecEcho == Init /\ [][NextEcho]_vars

\* --- several connections at once, each with one request (TCP or DNS)
ClientSendsRequest(c) ==
  /\ sent[c] = <<>>
  /\ \E m \in {MsgTcp, MsgDns} : ClientMessage(c, m)

MultiStep(c) ==
  \/ Upgrade(c, EarlyNone)
  \/ ClientSendsRequest(c)
  \/ PipeWrite(c)
  \/ \E h \in 1..MaxMsgs : ConnectDone(c, h)
  \/ \E h \in 1..MaxMsgs : InitialWriteDone(c, h)
  \/ \E h \in 1..MaxMsgs : UpstreamChunk(c, h, UpChunk(c), FALSE)
  \/ UdpTransform(c)
  \/ DohFetch(c)
  \/ DohReply(c, DohBody(c))
  \/ DohSend(c)

NextMulti == \E c \in Conn : MultiStep(c)

SpecMulti == Init /\ [][NextMulti]_vars

\* --- one DNS connection: the client sends a DNS request header and then
\* further length-prefixed queries; the resolver answers with bodies of
\* several lengths
DohSizes == {1, 2, 255, 256, 65535, 65536}

\* a DoH reply body of n bytes
DohBodyOf(n) == [i \in 1..n |-> 0]

DnsMsgChoices(c) == IF sent[c] = <<>> THEN {MsgDns} ELSE {DnsRecord}

ClientSendsDns(c) == \E m \in DnsMsgChoices(c) : ClientMessage(c, m)

DohReplies(c) == \E n \in DohSizes : DohReply(c, DohBodyOf(n))

DohStep(c) ==
  \/ Upgrade(c, EarlyNone)
  \/ ClientSendsDns(c)
  \/ PipeWrite(c)
  \/ UdpTransform(c)
  \/ DohFetch(c)
  \/ DohReplies(c)
  \/ DohSend(c)
  \/ DohFail(c)

NextDoh == DohStep(1)

SpecDoh == Init /\ [][NextDoh]_vars

\* --- the connection of Spec under fair scheduling: every step the event
\* loop can take is taken, every dial, write and DoH request that was issued
\* resolves or rejects, and a closing handshake the server started
\* completes.  The client and the upstream are not obliged to do anything.
Fairness(c) ==
  /\ WF_vars(PipeWrite(c))
  /\ WF_vars(PipeWriteDone(c) \/ PipeWriteFail(c))
  /\ WF_vars(PipeClose(c))
  /\ \A h \in 1..MaxMsgs :
       /\ WF_vars(ConnectDone(c, h) \/ ConnectFail(c, h))
       /\ WF_vars(InitialWriteDone(c, h) \/ InitialWriteFail(c, h))
  /\ WF_vars(UdpTransform(c))
  /\ WF_vars(DohFetch(c))
  /\ WF_vars(DohReply(c, DohBody(c)) \/ DohFail(c))
  /\ WF_vars(DohSend(c))
  /\ WF_vars(ServerCloseCompletes(c))

SpecLive == Init /\ [][Next]_vars /\ Fairness(1)

\* --- the connection of Spec when the upgrade request carries early data
\* that decodes: the encodings of a TCP request, a DNS request and a short
\* chunk
EarlyDataHeaders == {Base64Url(MsgTcp), Base64Url(MsgDns), Base64Url(DataMsg)}

EarlyDataChoices == {base64ToArrayBuffer(hdr) : hdr \in EarlyDataHeaders}

UpgradeWithEarlyData(c) == \E early \in EarlyDataChoices : Upgrade(c, early)

EarlyStep(c) ==
  \/ UpgradeWithEarlyData(c)
  \/ RelayStep(c)

NextEarly == EarlyStep(1)

SpecEarly == Init /\ [][NextEarly]_vars

\* ------------------------------------------------------------------------
\* processVlessHeader on its own, applied to headers built field by field
\* ------------------------------------------------------------------------
\* Addresses as a client writes them: the address type, the bytes that
\* follow the type byte on the wire, and the text of the address.  The
\* character U+FEFF is written "<FEFF>".
AddrCases ==
  { [type |-> 1, bytes |-> <<1, 1, 1, 1>>,
     text |-> <<"1", ".", "1", ".", "1", ".", "1">>],
    [type |-> 1, bytes |-> <<192, 168, 0, 10>>,
     text |-> <<"1", "9", "2", ".", "1", "6", "8", ".", "0", ".", "1", "0">>],
    [type |-> 2, bytes |-> <<1, 97>>, text |-> <<"a">>],
    [type |-> 2, bytes |-> <<3, 97, 46, 98>>, text |-> <<"a", ".", "b">>],
    [type |-> 2, bytes |-> <<3, 239, 187, 191>>, text |-> <<"<FEFF>">>],
    [type |-> 2, bytes |-> <<4, 239, 187, 191, 97>>, text |-> <<"<FEFF>", "a">>],
    [type |-> 3, bytes |-> <<32, 1, 13, 184, 0, 0, 0, 0, 0, 0, 0, 0, 0, 0, 0, 1>>,
     text |-> <<"2", "0", "0", "1", ":", "0", "d", "b", "8", ":",
                "0", "0", "0", "0", ":", "0", "0", "0", "0", ":",
                "0", "0", "0", "0", ":", "0", "0", "0", "0", ":",
                "0", "0", "0", "0", ":", "0", "0", "0", "1">>],
    [type |-> 3, bytes |-> <<254, 128, 0, 0, 0, 0, 0, 0, 0, 10, 11, 255, 254, 12, 13, 14>>,
     text |-> <<"f", "e", "8", "0", ":", "0", "0", "0", "0", ":",
                "0", "0", "0", "0", ":", "0", "0", "0", "0", ":",
                "0", "0", "0", "a", ":", "0", "b", "f", "f", ":",
                "f", "e", "0", "c", ":", "0", "d", "0", "e">>] }

PortCases == {53, 443, 65535}

\* a header with the configured user id, K addon bytes, a command, a port,
\* an address and a payload, of which the last `cut` bytes are missing
ParseCases ==
  [addons : 0..MaxAddons, command : {1, 2}, port : PortCases,
   addr : AddrCases, payload : {<<>>, PayloadHI}, cut : 0..MaxCut]

\* the bytes of the whole request
WireBytes(case) ==
  MkHeader(UserBytes, [i \in 1..case.addons |-> 0], case.command, case.port,
           <<case.addr.type>> \o case.addr.bytes, case.payload)

\* the buffer the parser is given
CaseBuffer(case) ==
  LET wire == WireBytes(case) IN SubSeq(wire, 1, Len(wire) - case.cut)

InitParse ==
  /\ proxyIP = <<>>
  /\ InitConn
  /\ startup = RunningServer
  /\ parseCase \in ParseCases
  /\ parseResult = NotParsed

\* const { hasError, ... } = processVlessHeader(chunk, userID)
ParseCall ==
  /\ parseCase # NoCase
  /\ parseResult = NotParsed
  /\ parseResult' = processVlessHeader(CaseBuffer(parseCase))
  /\ UNCHANGED <<startup, parseCase, proxyIP, wsReady, wsOut, inbound, sink,
                 remoteSocketWrapper, isDns, udpStreamWrite, tcp, socks, dns,
                 sent, parsed, upFirst>>

NextParse == ParseCall

SpecParse == InitParse /\ [][NextParse]_vars

\* --- one DNS connection whose client sends well-formed and malformed UDP
\* frames, whose resolver answers with any HTTP status or not at all, and
\* whose client may close the WebSocket at any time
UdpTwoRecords == <<0, 1, 7, 0, 1, 8>>
\* a record with length field 0
UdpZeroLength == <<0, 0>>
\* a record that declares 5 bytes and holds 2
UdpCutRecord == <<0, 5, 7, 8>>
\* a whole record followed by a single byte
UdpTrailingByte == <<0, 1, 7, 9>>

UdpPayloads == {DnsRecord, UdpTwoRecords, UdpZeroLength, UdpCutRecord, UdpTrailingByte}

UdpMsgChoices(c) ==
  IF sent[c] = <<>>
  THEN {MkHeader(UserBytes, <<>>, 2, DnsPort, AddrDomain, p) : p \in UdpPayloads}
  ELSE UdpPayloads

ClientSendsUdp(c) == \E m \in UdpMsgChoices(c) : ClientMessage(c, m)

HttpServerError == 500
DohStatuses == {HttpOk, HttpServerError}

\* the body the resolver returns for the n-th request of a connection
DohAnswer(n) == <<110 + n>>

DohResponses(c) ==
  \E n \in dns[c].pending : \E status \in DohStatuses :
    DohResponse(c, n, status, DohAnswer(n))

UdpStep(c) ==
  \/ Upgrade(c, EarlyNone)
  \/ ClientSendsUdp(c)
  \/ WsCloseEvent(c)
  \/ PipeWrite(c)
  \/ UdpTransform(c)
  \/ DohFetch(c)
  \/ DohResponses(c)
  \/ DohSend(c)
  \/ DohFail(c)

NextUdp == UdpStep(1)

SpecUdp == Init /\ [][NextUdp]_vars

\* --- one TCP connection whose client also sends text frames; the dial and
\* the writes succeed
\* the text "5"
TextFive == AsText(<<53>>)
\* the text "abc"
TextWord == AsText(<<97, 98, 99>>)

TextMsgChoices(c) ==
  IF sent[c] = <<>> THEN {MsgTcp, TextFive, TextWord}
  ELSE {DataMsg, TextFive, TextWord}

ClientSendsText(c) == \E m \in TextMsgChoices(c) : ClientMessage(c, m)

TextStep(c) ==
  \/ Upgrade(c, EarlyNone)
  \/ ClientSendsText(c)
  \/ WsCloseEvent(c)
  \/ PipeWrite(c)
  \/ PipeWriteDone(c)
  \/ PipeClose(c)
  \/ \E h \in 1..MaxMsgs : ConnectDone(c, h)
  \/ \E h \in 1..MaxMsgs : InitialWriteDone(c, h)

NextText == TextStep(1)

SpecText == Init /\ [][NextText]_vars

\* ------------------------------------------------------------------------
\* Start-up: the selection of userID
\* ------------------------------------------------------------------------
\* a well-formed UUID text that is not version 4
ZeroUuid == [i \in 1..36 |-> IF i \in {9, 14, 19, 24} THEN "-" ELSE "0"]
\* a valid UUID other than the default
OtherUuid == stringifyUUID(OtherV4Bytes).uuid
\* the values crypto.randomUUID() returns in the model
RandomUuids ==
  {stringifyUUID([UserBytes EXCEPT ![16] = 100]).uuid,
   stringifyUUID([UserBytes EXCEPT ![16] = 101]).uuid}

\* the UUID environment variable (empty: unset or '')
EnvChoices == {<<>>, OtherUuid, ZeroUuid, <<"a", "b", "c">>}

ConfigChoices ==
  {NoConfigFile, BadConfigFile, ConfigFileOf(<<>>), ConfigFileOf(ZeroUuid),
   ConfigFileOf(OtherUuid), ConfigFileOf(userID)}

\* Deno.env.get('UUID') || 'e5185305-1984-4084-81e0-f77271159c62'
envUUID(env) == IF env # <<>> THEN env ELSE userID

\* getUUIDFromConfig(): the uuid of config.json, <<>> for undefined
getUUIDFromConfig(file) ==
  IF file.kind = "json" /\ file.uuid # <<>> /\ isValidUUID(file.uuid)
  THEN file.uuid ELSE <<>>

\* saveUUIDToConfig(uuid): config.json afterwards; a failed write is logged
\* and leaves the file as it was
saveUUIDToConfig(file, uuid, written) ==
  IF written THEN ConfigFileOf(uuid) ELSE file

\* one start of the server: the module-level selection of userID
StartServer(random, written) ==
  /\ Len(startup.selected) < MaxStarts
  /\ LET env == envUUID(startup.env)
         configUUID == getUUIDFromConfig(startup.config)
     IN
     IF isValidUUID(env) THEN
       startup' = [startup EXCEPT !.selected = Append(@, env)]
     ELSE IF configUUID # <<>> THEN
       startup' = [startup EXCEPT !.selected = Append(@, configUUID)]
     ELSE
       startup' = [startup EXCEPT
                     !.selected = Append(@, random),
                     !.config = saveUUIDToConfig(@, random, written),
                     !.saveFailed = @ \/ ~written]
  /\ UNCHANGED <<parseCase, parseResult, proxyIP, wsReady, wsOut, inbound,
                 sink, remoteSocketWrapper, isDns, udpStreamWrite, tcp, socks,
                 dns, sent, parsed, upFirst>>

InitStart ==
  /\ proxyIP = <<>>
  /\ InitConn
  /\ parseCase = NoCase
  /\ parseResult = NotParsed
  /\ startup \in [env : EnvChoices, config : ConfigChoices,
                  selected : {<<>>}, saveFailed : {FALSE}]

NextStart == \E random \in RandomUuids : \E written \in BOOLEAN : StartServer(random, written)

SpecStart == InitStart /\ [][NextStart]_vars

\* ------------------------------------------------------------------------
\* Properties
\* ------------------------------------------------------------------------

\* a frame that starts with the two response header bytes
HasHeaderPrefix(f) == Len(f.bytes) >= 2 /\ SubSeq(f.bytes, 1, 2) = ResponseHeader(0)

HeaderFrames(c) == {i \in 1..Len(wsOut[c]) : HasHeaderPrefix(wsOut[c][i])}

\* the parse result of the chunk a handler was started from
HeaderOf(c, hd) == ParseOf(sent[c][hd.msg])

\* the first socket a handler opened
FirstSockets(c, h) == {s \in 1..Len(socks[c]) : socks[c][s].handler = h /\ ~socks[c][s].retry}

\* indexes of the frames built from chunks of socket s
FramesOf(c, s) == {i \in 1..Len(wsOut[c]) : wsOut[c][i].sock = s}

\* C1: on a connection with an upstream TCP socket the client is sent exactly
\* one response header, as the prefix of the first frame that carries
\* upstream bytes (also after a retry)
C1_SingleResponseHeader ==
  \A c \in Conn :
    /\ Cardinality(HeaderFrames(c)) <= 1
    /\ wsOut[c] # <<>> => HeaderFrames(c) = {1}

RECURSIVE TotalRetries(_)
\* the retry() calls of all handlers of one connection
TotalRetries(hs) == IF hs = <<>> THEN 0 ELSE Head(hs).retries + TotalRetries(Tail(hs))

C3_FallbackResend ==
  \A c \in Conn : \A s \in 1..Len(socks[c]) :
    (socks[c][s].retry /\ proxyIP # <<>>) =>
      LET sk == socks[c][s]
          hd == tcp[c][sk.handler]
          fr == FramesOf(c, s)
      IN /\ sk.hostname = proxyIP
         /\ sk.port = HeaderOf(c, hd).portRemote
         /\ \A f \in FirstSockets(c, sk.handler) :
              /\ socks[c][f].port = sk.port
              /\ socks[c][f].nsent = 0
              /\ FramesOf(c, f) = {}
              /\ socks[c][f].wrote
              /\ sk.wrote => sk.initial = socks[c][f].initial
         /\ FirstSockets(c, sk.handler) # {}
         /\ sk.wrote => sk.initial = RawClientData(sent[c][hd.msg],
                                                   HeaderOf(c, hd).rawDataIndex)
         /\ \A i \in fr :
              IF \A j \in fr : i <= j
              THEN wsOut[c][i].bytes = hd.vlessResponseHeader \o UpChunk(c)
              ELSE wsOut[c][i].bytes = UpChunk(c)

C3_Witness ==
  /\ proxyIP = ProxyHost
  /\ \E s \in 1..Len(socks[1]) :
       /\ socks[1][s].retry
       /\ socks[1][s].hostname = ProxyHost
       /\ socks[1][s].initial = PayloadHI
       /\ \E i \in FramesOf(1, s) :
            wsOut[1][i].bytes = ResponseHeader(0) \o UpChunk(1)

\* the consequences of a rejected first chunk: no TCP dial, no DoH request,
\* and once the chunk was handled the inbound pipe has failed and the
\* WebSocket is no longer open
Rejected(c) ==
  /\ tcp[c] = <<>>
  /\ socks[c] = <<>>
  /\ dns[c].fetches = 0
  /\ ~udpStreamWrite[c]
  /\ 1 \in {parsed[c][i] : i \in 1..Len(parsed[c])} =>
       /\ sink[c].st = "failed"
       /\ wsReady[c] # WS_READY_STATE_OPEN

\* C4: a first inbound chunk (early data or first message) shorter than 24
\* bytes ends the connection and no Deno.connect or DoH fetch is made
C4_ShortFirstMessage ==
  \A c \in Conn :
    (sent[c] # <<>> /\ Len(sent[c][1]) < MinHeaderLength) => Rejected(c)

C4_Witness ==
  /\ sent[1] # <<>>
  /\ sent[1][1] = MsgShort23
  /\ parsed[1] = <<1>>
  /\ sink[1].st = "failed"
  /\ wsReady[1] = WS_READY_STATE_CLOSING

\* C5: a first inbound chunk of at least 24 bytes whose 16 user id bytes
\* differ from the configured user id (valid version-4 pattern or not) ends
\* the connection and no upstream dial or DoH request is made
C5_WrongUser ==
  \A c \in Conn :
    (/\ sent[c] # <<>>
     /\ Len(sent[c][1]) >= MinHeaderLength
     /\ Slice(sent[c][1], 1, 17) # UserBytes) => Rejected(c)

C5_Witness ==
  /\ sent[1] # <<>>
  /\ sent[1][1] = MsgZeroUser
  /\ parsed[1] = <<1>>
  /\ sink[1].st = "failed"
  /\ wsReady[1] = WS_READY_STATE_CLOSING

\* C6: the residual bytes of the first header chunk are written upstream
\* unchanged and before any byte of a later client chunk
C6_ResidualFirst ==
  \A c \in Conn :
    tcp[c] # <<>> =>
      LET m1 == tcp[c][1].msg
          raw == RawClientData(sent[c][m1], HeaderOf(c, tcp[c][1]).rawDataIndex)
      IN /\ upFirst[c] \in {0, m1}
         /\ \A s \in 1..Len(socks[c]) :
              (socks[c][s].handler = 1 /\ socks[c][s].wrote) =>
                socks[c][s].initial = raw

\* a chunk the handler accepts as a request header
Accepted(m) ==
  LET r == ParseOf(m)
  IN ~r.hasError /\ (r.isUDP => r.portRemote = DnsPort)

\* C7: once a header was parsed successfully no later chunk of the
\* connection is given to processVlessHeader
C7_NoReparse ==
  \A c \in Conn : \A i \in 1..Len(parsed[c]) : \A j \in 1..(i - 1) :
    ~Accepted(sent[c][parsed[c][j]])

\* C8: the upstream slot is bound as the result of one parsed header only:
\* never both a TCP socket and a DNS writer, never TCP sockets of two headers
C8_SlotBoundOnce ==
  \A c \in Conn :
    /\ Len(tcp[c]) <= 1
    /\ ~(udpStreamWrite[c] /\ tcp[c] # <<>>)
    /\ (udpStreamWrite[c] \/ remoteSocketWrapper[c] # NoSocket) =>
         \E i \in 1..Len(parsed[c]) : Accepted(sent[c][parsed[c][i]])

\* the bytes the client has received on its WebSocket
Received(c) == Flatten([i \in 1..Len(wsOut[c]) |-> wsOut[c][i].bytes])

\* nothing is left to do for the connection: no chunk waits for the sink,
\* no dial or upstream write is pending, the upstream has echoed all it got
Quiescent(c) ==
  /\ wsReady[c] # 0
  /\ sink[c].st # "writing"
  /\ ~(/\ sink[c].st = "idle"
       /\ inbound[c].state \in {"readable", "closeRequested"}
       /\ inbound[c].queue # <<>>)
  /\ \A h \in 1..Len(tcp[c]) :
       /\ ~Dialing(tcp[c][h])
       /\ ~Writing(tcp[c][h])
       /\ EchoPending(c, h) = <<>>

\* C9: against an echoing upstream the client ends up with exactly the
\* response header followed by the bytes it sent after the header
C9_EchoRoundTrip ==
  \A c \in Conn :
    (Quiescent(c) /\ ClientPayload(c) # <<>>) =>
      Received(c) = ResponseHeader(0) \o ClientPayload(c)

\* what the upstream and the DoH resolver of connection c produce
OwnPayloads(c) == {UpChunk(c), UdpSizeBuffer(Len(DohBody(c))) \o DohBody(c)}

\* C10: every frame on the WebSocket of a connection is built from a chunk
\* of that connection's own upstream or from its own DoH reply
C10_NoCrossConnectionBytes ==
  \A c \in Conn : \A i \in 1..Len(wsOut[c]) :
    LET f == wsOut[c][i]
    IN /\ (IF HasHeaderPrefix(f) THEN SubSeq(f.bytes, 3, Len(f.bytes)) ELSE f.bytes)
            \in OwnPayloads(c)
       /\ f.sock # NoSocket => f.sock \in 1..Len(socks[c])
       /\ f.sock = NoSocket => udpStreamWrite[c]

C10_Witness ==
  /\ \E i \in 1..Len(wsOut[1]) : wsOut[1][i].sock # NoSocket
  /\ \E i \in 1..Len(wsOut[2]) : wsOut[2][i].sock = NoSocket
  /\ wsOut[1][1].bytes = ResponseHeader(0) \o UpChunk(1)
  /\ wsOut[2][1].bytes = ResponseHeader(0) \o <<0, 1>> \o DohBody(2)

\* the bytes of a frame behind the response header it may carry
FramePayload(f) == IF f.hdr THEN SubSeq(f.bytes, 3, Len(f.bytes)) ELSE f.bytes

\* the DoH reply frames of a connection: those sent on the WebSocket and
\* the one handleUDPOutBound has built and is about to send
DohFrames(c) ==
  {wsOut[c][i] : i \in {j \in 1..Len(wsOut[c]) : wsOut[c][j].sock = NoSocket}}
  \cup (IF dns[c].sending
        THEN {Frame(dns[c].tosend, dns[c].withHeader, NoSocket)} ELSE {})

C12_UdpPortRejected ==
  \A c \in Conn :
    (/\ sent[c] # <<>>
     /\ ~ParseOf(sent[c][1]).hasError
     /\ ParseOf(sent[c][1]).isUDP
     /\ ParseOf(sent[c][1]).portRemote # DnsPort) => Rejected(c)

C12_Witness ==
  /\ sent[1] # <<>>
  /\ sent[1][1] = MsgUdp443
  /\ parsed[1] = <<1>>
  /\ sink[1].st = "failed"
  /\ inbound[1].readableStreamCancel
  /\ wsReady[1] = WS_READY_STATE_CLOSING
  /\ dns[1].fetches = 0

\* the WebSocket of the connection has been closed (close() was called on
\* it or the close event was delivered)
WsClosed(c) == wsReady[c] \in {WS_READY_STATE_CLOSING, WS_READY_STATE_CLOSED}

\* the pipe of a TCP handler has ended and remoteSocketToWS has returned
\* without calling retry()
PipeEndedNoRetry(c) ==
  \E h \in 1..Len(tcp[c]) : tcp[c][h].pc = "done" /\ tcp[c][h].failure = "none"

\* C13: once the upstream pipe of a TCP handler has ended (EOF) and no retry
\* follows, the client WebSocket is eventually closed
C13_EofClosesWebSocket ==
  \A c \in Conn : PipeEndedNoRetry(c) ~> WsClosed(c)

\* no upstream TCP socket of the connection is open and none is being opened
NoOpenUpstream(c) ==
  /\ \A s \in 1..Len(socks[c]) : socks[c][s].rd # "open"
  /\ \A h \in 1..Len(tcp[c]) : ~Dialing(tcp[c][h]) /\ ~Writing(tcp[c][h])

\* C14: once the WebSocket of a connection is gone (closed or errored), every
\* upstream TCP socket of the connection is eventually closed, also when the
\* upstream stays silent
C14_UpstreamClosedAfterWsGone ==
  \A c \in Conn : (wsReady[c] = WS_READY_STATE_CLOSED) ~> NoOpenUpstream(c)

\* C15: when the dial or the initial write of a TCP handler has failed (first
\* attempt or retry), the failure was caught by the relay and the WebSocket
\* of the connection has been closed
C15_DialFailureCaught ==
  \A c \in Conn : \A h \in 1..Len(tcp[c]) :
    tcp[c][h].failure # "none" => WsClosed(c)

\* no upstream work was started for the connection: no TCP handler, no TCP
\* socket, no DoH writer and no DoH request
NoUpstreamWork(c) ==
  /\ tcp[c] = <<>>
  /\ socks[c] = <<>>
  /\ ~udpStreamWrite[c]
  /\ dns[c].fetches = 0

\* C16: when the sec-websocket-protocol header is not empty and cannot be
\* decoded, no upstream dial and no DoH request is ever made for the
\* connection, whatever the client sends, and the WebSocket is closed
C16_BadEarlyDataFails ==
  \A c \in Conn :
    /\ [](inbound[c].earlyError => NoUpstreamWork(c))
    /\ inbound[c].earlyError ~> WsClosed(c)

\* the part of C16 that holds: after a decode error nothing is dialled
C16_NoUpstreamAfterBadEarlyData ==
  \A c \in Conn : inbound[c].earlyError => NoUpstreamWork(c)

\* the chunks that wait in the inbound stream are in arrival order, hold the
\* bytes the client sent, and arrived after every chunk write() has taken
InboundInOrder(c) ==
  LET q == inbound[c].queue IN
  /\ \A i \in 1..Len(q) : \A j \in 1..Len(q) : i < j => q[i].idx < q[j].idx
  /\ \A i \in 1..Len(q) :
       /\ q[i].idx \in 1..Len(sent[c])
       /\ q[i].data = sent[c][q[i].idx]
       /\ sink[c].idx < q[i].idx
       /\ \A k \in 1..Len(parsed[c]) : parsed[c][k] < q[i].idx
  /\ \A i \in 1..Len(parsed[c]) : \A j \in 1..Len(parsed[c]) :
       i < j => parsed[c][i] < parsed[c][j]

\* C17: the decoded early data of a connection is the first chunk given to
\* processVlessHeader, nothing is relayed before that, and the WebSocket
\* messages follow it in arrival order
C17_EarlyDataFirst ==
  \A c \in Conn :
    wsReady[c] # 0 =>
      /\ sent[c] # <<>>
      /\ sent[c][1] \in {MsgTcp, MsgDns, DataMsg}
      /\ parsed[c] # <<>> => parsed[c][1] = 1
      /\ parsed[c] = <<>> => NoUpstreamWork(c)
      /\ InboundInOrder(c)

C17_Witness ==
  /\ sent[1] = <<MsgTcp, DataMsg>>
  /\ parsed[1] = <<1>>
  /\ \E s \in 1..Len(socks[1]) : socks[1][s].received = PayloadHI \o DataMsg

\* ------------------------------------------------------------------------
\* C18: whenever processVlessHeader returns without error for a buffer of
\* at least 24 bytes, the rawDataIndex it returns is at most the byte length
\* of that buffer.
\* ------------------------------------------------------------------------
C18_RawDataIndexInBuffer ==
  (/\ parseResult # NotParsed
   /\ Len(CaseBuffer(parseCase)) >= MinHeaderLength
   /\ ~parseResult.hasError)
  => parseResult.rawDataIndex <= Len(CaseBuffer(parseCase))

\* the whole header of the case is in the buffer (only payload is missing)
CompleteHeader(case) == case.cut <= Len(case.payload)

\* the result r is what the fields of the case say: no error, the port read
\* big-endian at offset 19+K, the address of the case as text, isUDP iff
\* the command is 2, rawDataIndex the offset of the first byte after the
\* address
ParsedAsBuilt(case, r) ==
  LET buf == CaseBuffer(case)
      K == case.addons
  IN /\ ~r.hasError
     /\ r.portRemote = buf[19 + K + 1] * 256 + buf[19 + K + 2]
     /\ r.portRemote = case.port
     /\ r.addressType = buf[21 + K + 1]
     /\ r.addressRemote = case.addr.text
     /\ r.isUDP = (case.command = 2)
     /\ r.rawDataIndex = 22 + K + Len(case.addr.bytes)
     /\ r.rawDataIndex = Len(WireBytes(case)) - Len(case.payload)

\* ------------------------------------------------------------------------
\* C19: every complete well-formed header with the configured user id, K
\* addon bytes, command 1 or 2 and address type 1, 2 or 3 is parsed without
\* error to the port at offset 19+K, the address from offset 22+K (IPv4
\* dotted decimal, the L bytes of a domain, IPv6 as eight hex groups),
\* isUDP iff the command is 2, and rawDataIndex just after the address.
\* ------------------------------------------------------------------------
C19_WellFormedHeaderParsed ==
  (parseResult # NotParsed /\ CompleteHeader(parseCase))
  => ParsedAsBuilt(parseCase, parseResult)

\* the same for the headers whose domain does not begin with a byte order
\* mark
C19_HeaderWithoutBomParsed ==
  (/\ parseResult # NotParsed
   /\ CompleteHeader(parseCase)
   /\ "<FEFF>" \notin {parseCase.addr.text[i] : i \in 1..Len(parseCase.addr.text)})
  => ParsedAsBuilt(parseCase, parseResult)

\* m holds only the beginning of a valid header: a proper prefix of the
\* header bytes of a request the parser accepts
HeaderPrefix(m) ==
  \E full \in {MsgTcp, MsgDns} :
    \E n \in 1..(ParseOf(full).rawDataIndex - 1) : m = SubSeq(full, 1, n)

\* ------------------------------------------------------------------------
\* C20: a first message that holds only a prefix of a valid header does not
\* fail the connection: once it was handed to the parser the inbound pipe
\* has not failed and the server has not closed the WebSocket.
\* ------------------------------------------------------------------------
C20_HeaderPrefixBuffered ==
  \A c \in Conn :
    (/\ sent[c] # <<>>
     /\ HeaderPrefix(sent[c][1])
     /\ parsed[c] # <<>>)
    => /\ sink[c].st # "failed"
       /\ ~inbound[c].readableStreamCancel

\* ------------------------------------------------------------------------
\* C21: the retry is performed only after a clean end of the first upstream
\* socket: a step in which the upstream-to-client pipe of an open WebSocket
\* ends with a read error does not start the retry dial.
\* ------------------------------------------------------------------------
C21_NoRetryAfterPipeError ==
  [][\A c \in Conn : \A h \in 1..Len(tcp[c]) :
       (wsReady[c] = WS_READY_STATE_OPEN /\ UpstreamError(c, h))
       => tcp'[c][h].pc # "retry_dial"]_vars

UdpChunks(c) ==
  {IF i = 1 THEN RawClientData(sent[c][1], ParseOf(sent[c][1]).rawDataIndex)
   ELSE sent[c][i] : i \in 1..Len(sent[c])}

\* d is a record of the chunk: a 2-byte length field that holds Len(d),
\* followed in the chunk by the bytes of d
WholeRecordOf(d, chunk) ==
  \E i \in 0..(Len(chunk) - 2) :
    /\ chunk[i + 1] * 256 + chunk[i + 2] = Len(d)
    /\ i + 2 + Len(d) <= Len(chunk)
    /\ SubSeq(chunk, i + 3, i + 2 + Len(d)) = d

DohRequestFails(c) ==
  /\ wsReady[c] = WS_READY_STATE_OPEN
  /\ dns'[c].pending # dns[c].pending
  /\ dns'[c].pending \subseteq dns[c].pending
  /\ ~dns'[c].sending

DohInFlight(c) == Cardinality(dns[c].pending) + (IF dns[c].sending THEN 1 ELSE 0)

\* the request a DNS reply frame answers (SpecUdp: request n is answered
\* with DohAnswer(n))
AnswerOf(f) == CHOOSE n \in 1..MaxDoh : FramePayload(f) = UdpSizeBuffer(1) \o DohAnswer(n)

Queued(c, i) == \E k \in 1..Len(inbound[c].queue) : inbound[c].queue[k].idx = i

\* the i-th chunk of the client is a text frame that write() has taken
TextHandled(c, i) ==
  /\ i \in 1..Len(sent[c])
  /\ IsText(sent[c][i])
  /\ ~Queued(c, i)

\* ------------------------------------------------------------------------
\* C27: a text frame from the client closes the connection, as the first
\* message and after the upstream socket is set, and is never forwarded to
\* the upstream: once write() has taken a text frame the WebSocket is no
\* longer open and no upstream write is made for that frame.
\* ------------------------------------------------------------------------
C27_TextFrameCloses ==
  \A c \in Conn : \A i \in 1..Len(sent[c]) :
    TextHandled(c, i) =>
      /\ wsReady[c] # WS_READY_STATE_OPEN
      /\ ~(sink[c].st = "writing" /\ sink[c].idx = i)

\* the part that holds: a text frame that is the first message
C27_FirstTextFrameCloses ==
  \A c \in Conn :
    TextHandled(c, 1) => wsReady[c] # WS_READY_STATE_OPEN /\ tcp[c] = <<>>

\* ------------------------------------------------------------------------
\* C28: two starts of the server with the same environment, the second
\* seeing config.json as the first left it (also when the first start's
\* write of config.json failed), select the same userID.
\* ------------------------------------------------------------------------
C28_SameUserIDOnRestart ==
  \A i, j \in 1..Len(startup.selected) : startup.selected[i] = startup.selected[j]

\* the same when no write of config.json has failed
C28_SameUserIDWhenSaved ==
  ~startup.saveFailed => C28_SameUserIDOnRestart

RetryStarted(c) ==
  \E h \in 1..Len(tcp[c]) :
    tcp'[c][h].pc = "retry_dial" /\ tcp[c][h].pc # "retry_dial"

\* ------------------------------------------------------------------------
\* C30: no upstream dial is started for a connection whose WebSocket has
\* closed or for which safeCloseWebSocket was called; in particular, when
\* remoteSocketToWS starts the retry dial the WebSocket is open (the catch
\* handler of a failed pipe has not closed it).
\* ------------------------------------------------------------------------
C30_NoDialAfterClose ==
  [][\A c \in Conn : RetryStarted(c) => wsReady'[c] = WS_READY_STATE_OPEN]_vars

\* ------------------------------------------------------------------------
\* C31: the stream built by makeReadableWebSocketStream never calls enqueue
\* or close on its controller after the stream has been errored, closed or
\* cancelled, whatever the order of the WebSocket's message, error and close
\* events, and after a failed early-data decode.
\* ------------------------------------------------------------------------
C31_NoControllerUseAfterEnd ==
  \A c \in Conn : ~inbound[c].misuse

\* the same for a stream that was cancelled: readableStreamCancel guards
\* both listeners
C31_NoControllerUseAfterCancel ==
  \A c \in Conn : inbound[c].readableStreamCancel => ~inbound[c].misuse

\* a step in which write() of the client-to-upstream sink finds a socket
\* in remoteSocketWrapper and calls getWriter() on its writable side
SinkGetsWriter(c) ==
  /\ sink[c].st = "idle"
  /\ sink'[c].st \in {"writing", "failed"}
  /\ ~(isDns[c] /\ udpStreamWrite[c])
  /\ remoteSocketWrapper[c] # NoSocket

\* connectAndWrite has not released the writer of socket s of connection c
WriterHeld(c, s) == socks[c][s].locked

\* socket s of connection c has ended and the handler that dialled it is
\* dialling the fallback
ClosedDuringRetryDial(c, s) ==
  /\ socks[c][s].rd # "open"
  /\ tcp[c][socks[c][s].handler].pc = "retry_dial"

\* the sink never asks for a writer that connectAndWrite holds
C32_NoGetWriterWhileHeld ==
  [][\A c \in Conn :
       SinkGetsWriter(c) => ~WriterHeld(c, remoteSocketWrapper[c])]_vars

\* the sink never writes to a closed first socket during the retry dial
C32_NoWriteToClosedSocket ==
  [][\A c \in Conn :
       SinkGetsWriter(c) => ~ClosedDuringRetryDial(c, remoteSocketWrapper[c])]_vars

\* ------------------------------------------------------------------------
\* C32: the writable side of the upstream socket never has two writers
\* requested at once: the client-to-upstream sink never calls getWriter
\* while connectAndWrite (first dial or retry) holds the writer for the
\* initial payload, and no client message is written to a first socket
\* that has closed while the fallback socket is being dialled.
\* ------------------------------------------------------------------------
C32_SingleUpstreamWriter ==
  [][\A c \in Conn :
       SinkGetsWriter(c) =>
         /\ ~WriterHeld(c, remoteSocketWrapper[c])
         /\ ~ClosedDuringRetryDial(c, remoteSocketWrapper[c])]_vars

====
